---- MODULE Spec2Model ----
(***************************************************************************)
(* Model of gbasis/gradient/ad.py: the evaluation of generalized Cartesian *)
(* Gaussian contractions at a point (eval_contractions), its gradient with *)
(* respect to the three center scalars (eval_deriv, built on autograd's    *)
(* grad) and the module-level script that draws random inputs and compares *)
(* the gradient with a central finite difference.                          *)
(*                                                                         *)
(* Arithmetic.  Coordinates, centers, exponents, coefficients and          *)
(* normalization constants are integers (grid units).  With integer        *)
(* arguments every Gaussian factor exp(-alpha * delta^2) is a power E^n of *)
(* E = exp(-1), and every value the program computes is a polynomial in E  *)
(* with integer coefficients.  E is transcendental, so two such            *)
(* polynomials denote the same real number exactly when they have the same *)
(* coefficients: the model computes in exact real arithmetic.  Floating-   *)
(* point rounding is not modelled.                                         *)
(*                                                                         *)
(* Differentiation.  A quantity that depends on a center scalar is a pair  *)
(* [v, d]: its value and its derivative with respect to the scalar being   *)
(* traced.  Every numpy primitive of eval_contractions propagates both.    *)
(***************************************************************************)
EXTENDS Integers, Sequences, FiniteSets, TLC

\* ------------------------------------------------------------------ bounds
MaxSeed == 7
MaxK == 3
MaxL == 2
MaxM == 2
NPoints == 2
MaxCoord == 2
MaxAlpha == 2
MaxCoeff == 2
MaxNorm == 2
MaxAngmom == 1
MaxDriverSeed == 24

\* ------------------------------------------------- the script's constants
\* coords = np.random.rand(10, 3)
DriverPoints == 10
\* alphas = np.random.rand(1)
DriverAlphas == 1
\* prim_coeffs = np.random.rand(2, 1); norm = np.ones((1, 2))
DriverPrims == 2
DriverContractions == 1
DriverAngmoms == 1
\* angmom_comps = np.random.randint(0, 2, (1, 3)): the exclusive upper end
DriverAngmomEnd == 2

\* --------------------------------------------------- polynomials in E = e^-1
\* A polynomial is a function from the finite set of its degrees to its
\* non-zero integer coefficients.
PZero == [n \in {} |-> 0]

PMono(c, n) == IF c = 0 THEN PZero ELSE [m \in {n} |-> c]

POne == PMono(1, 0)

PCoef(p, n) == IF n \in DOMAIN p THEN p[n] ELSE 0

PAdd(p, q) ==
    LET D == {n \in (DOMAIN p) \cup (DOMAIN q) : PCoef(p, n) + PCoef(q, n) # 0}
    IN  [n \in D |-> PCoef(p, n) + PCoef(q, n)]

PScale(c, p) == IF c = 0 THEN PZero ELSE [n \in DOMAIN p |-> c * p[n]]

PSub(p, q) == PAdd(p, PScale(-1, q))

\* Exact halving, used by the central difference.
PHalf(p) == [n \in DOMAIN p |-> p[n] \div 2]

\* ------------------------------------------------- value/derivative pairs
\* An integer quantity with its derivative.
Dual(v, d) == [v |-> v, d |-> d]

\* A plain number: no dependence on the traced argument.
Plain(x) == Dual(x, 0)

\* A quantity c * E^n with its derivative c' * E^n: what a product of
\* monomial and Gaussian factors is (the derivative of E^n is a multiple of
\* E^n, so the pair shares one degree n).
Term(v, d, n) == [v |-> v, d |-> d, n |-> n]

\* ---------------------------------------------------------- numpy primitives
\* Mutant of Pow: a power computed as exp(n * log(x)) loses 0 ** 0 = 1.
RECURSIVE PowViaLog(_, _)
PowViaLog(x, n) ==
    IF x = 0 THEN 0 ELSE IF n = 0 THEN 1 ELSE x * PowViaLog(x, n - 1)

\* x ** n for a float x and a non-negative integer n (0.0 ** 0 is 1.0).
RECURSIVE Pow(_, _)
Pow(x, n) == IF n = 0 THEN 1 ELSE x * Pow(x, n - 1)

\* Mutant of Sub: the derivative taken as if the point, not the center, were
\* the traced argument.
SubTracedPoint(a, b) == Dual(a.v - b.v, a.d + b.d)

\* coords - center, one dimension.
Sub(a, b) == Dual(a.v - b.v, a.d - b.d)

\* coords ** n with its derivative n * x ** (n - 1) (0 when n = 0).
Power(x, n) ==
    Dual(Pow(x.v, n), IF n = 0 THEN 0 ELSE n * Pow(x.v, n - 1) * x.d)

\* -alphas * coords ** 2, for one primitive and one dimension.
NegScale(alpha, x) == Dual(-alpha * x.v, -alpha * x.d)

\* np.exp of an integer argument u <= 0: E^(-u), with derivative u' * E^(-u).
Exp(u) == Term(1, u.d, -u.v)

\* (monomial factor) * (Gaussian factor).
Mul(x, g) == Term(x.v * g.v, x.v * g.d + x.d * g.v, g.n)

\* Product of two terms (np.prod multiplies along the axes).
Times(a, b) == Term(a.v * b.v, a.v * b.d + a.d * b.v, a.n + b.n)

\* A plain number times a term.
Scale(c, a) == Term(c * a.v, c * a.d, a.n)

\* A sum of terms is a polynomial with its derivative.
DZero == Dual(PZero, PZero)

Plus(s, a) == Dual(PAdd(s.v, PMono(a.v, a.n)), PAdd(s.d, PMono(a.d, a.n)))

\* Left-to-right sum of the first k terms of a sequence (tensordot sums over
\* the primitive axis).
RECURSIVE SumTo(_, _)
SumTo(s, k) == IF k = 0 THEN DZero ELSE Plus(SumTo(s, k - 1), s[k])

\* numpy broadcasting of two axis lengths: equal, or one of them is 1.
\* 0 stands for "operands could not be broadcast together".
Broadcast(a, b) ==
    IF a = b THEN a ELSE IF a = 1 THEN b ELSE IF b = 1 THEN a ELSE 0

\* Index i of a broadcast axis, read from an operand whose axis has length len.
At(i, len) == IF len = 1 THEN 1 ELSE i

\* ------------------------------------------------------- eval_contractions
\* coords = coords - center: the shifted coordinate of each dimension.
shift(coords, R_x, R_y, R_z) ==
    LET center == <<R_x, R_y, R_z>>
    IN  [d \in 1..3 |-> Sub(Plain(coords[d]), center[d])]

\* Mutant of gauss: alphas not laid along the primitive axis, so that every
\* primitive gets the first exponent.
gauss_first(alphas, delta, k, d) == Exp(NegScale(alphas[1], Power(delta[d], 2)))

\* gauss = np.exp(-alphas * coords ** 2), entry (primitive k, dimension d).
gauss(alphas, delta, k, d) == Exp(NegScale(alphas[k], Power(delta[d], 2)))

\* coords ** angmom_comps, entry (dimension d, angular momentum vector l).
monomial(delta, angmom_comps, l, d) == Power(delta[d], angmom_comps[l][d])

\* zeroth_part = np.prod(coords ** angmom_comps * gauss, axis=(0, 2)),
\* entry (primitive k, angular momentum vector l).
zeroth_part(delta, angmom_comps, alphas, k, l) ==
    Times(Times(Mul(monomial(delta, angmom_comps, l, 1), gauss(alphas, delta, k, 1)),
                Mul(monomial(delta, angmom_comps, l, 2), gauss(alphas, delta, k, 2))),
          Mul(monomial(delta, angmom_comps, l, 3), gauss(alphas, delta, k, 3)))

\* Mutant of norm_T: one normalization constant per angular momentum vector,
\* the first primitive's, for all primitives.
norm_first(norm, k, l) == norm[l][1]

\* norm.T[:, :, np.newaxis], entry (primitive k, angular momentum vector l).
norm_T(norm, k, l) == norm[l][k]

\* norm * zeroth_part under broadcasting: the K x L matrix of the broadcast
\* shape.
normalized(delta, angmom_comps, alphas, norm, K, L) ==
    [k \in 1..K |-> [l \in 1..L |->
        Scale(norm_T(norm, At(k, Len(norm[1])), At(l, Len(norm))),
              zeroth_part(delta, angmom_comps, alphas,
                          At(k, Len(alphas)), At(l, Len(angmom_comps))))]]

\* np.tensordot(prim_coeffs, b, (0, 0)) for a K x L matrix b: the M x L
\* matrix whose entry (m, l) sums prim_coeffs[k, m] * b[k, l] over k.
tensordot(prim_coeffs, b) ==
    [m \in 1..Len(prim_coeffs[1]) |->
        [l \in 1..Len(b[1]) |->
            SumTo([k \in 1..Len(b) |-> Scale(prim_coeffs[k][m], b[k][l])], Len(b))]]

\* Mutant of flatten: column-major (Fortran) order.
flatten_F(T) ==
    [i \in 1..(Len(T) * Len(T[1])) |->
        T[((i - 1) % Len(T)) + 1][((i - 1) \div Len(T)) + 1]]

\* ndarray.flatten() of an M x L matrix: row-major.
flatten(T) ==
    [i \in 1..(Len(T) * Len(T[1])) |->
        T[((i - 1) \div Len(T[1])) + 1][((i - 1) % Len(T[1])) + 1]]

\* A call returns a value or raises: err is "" or the exception's name.
Return(v) == [err |-> "", val |-> v]

Raise(e) == [err |-> e, val |-> <<>>]

IsError(r) == r.err # ""

\* eval_contractions for one point.  R_x, R_y, R_z are value/derivative
\* pairs; the call returns the flat sequence of value/derivative pairs, or
\* raises ValueError when numpy cannot broadcast or contract the shapes.
eval_contractions(coords, R_x, R_y, R_z, angmom_comps, alphas, prim_coeffs, norm) ==
    LET delta == shift(coords, R_x, R_y, R_z)
        K == Broadcast(Len(norm[1]), Len(alphas))
        L == Broadcast(Len(norm), Len(angmom_comps))
    IN  IF K = 0 \/ L = 0 \/ Len(prim_coeffs) # K THEN Raise("ValueError")
        ELSE Return(flatten(tensordot(prim_coeffs,
                 normalized(delta, angmom_comps, alphas, norm, K, L))))

\* The plain numbers of a result computed without tracing.
Values(r) ==
    IF IsError(r) THEN r ELSE Return([i \in 1..Len(r.val) |-> r.val[i].v])

\* np.apply_along_axis(f, 1, coords, ...): f on every row, in order; an
\* exception raised by a row ends the whole call.
apply_along_axis(rows) ==
    IF \E n \in 1..Len(rows) : IsError(rows[n])
    THEN rows[CHOOSE n \in 1..Len(rows) :
                 /\ IsError(rows[n])
                 /\ \A j \in 1..(n - 1) : ~IsError(rows[j])]
    ELSE Return([n \in 1..Len(rows) |-> rows[n].val])

\* -------------------------------------------------------------- eval_deriv
\* grad(eval_contractions, argnum)(coords, R_x, R_y, R_z, ...): the
\* derivative of the output with respect to positional argument argnum
\* (1 = R_x, 2 = R_y, 3 = R_z).  autograd's grad applies only to functions
\* whose output has exactly one element and raises TypeError otherwise.
grad(argnum, coords, R_x, R_y, R_z, angmom_comps, alphas, prim_coeffs, norm) ==
    LET box(i, r) == Dual(r, IF i = argnum THEN 1 ELSE 0)
        ans == eval_contractions(coords, box(1, R_x), box(2, R_y), box(3, R_z),
                                 angmom_comps, alphas, prim_coeffs, norm)
    IN  IF IsError(ans) THEN ans
        ELSE IF Len(ans.val) # 1 THEN Raise("TypeError")
        ELSE Return(ans.val[1].d)

\* Mutant of vstack_T: the transpose forgotten.
vstack_only(grad_x, grad_y, grad_z) == <<grad_x, grad_y, grad_z>>

\* np.vstack([grad_x, grad_y, grad_z]).T of three length-N vectors.
vstack_T(grad_x, grad_y, grad_z) ==
    [n \in 1..Len(grad_x) |-> <<grad_x[n], grad_y[n], grad_z[n]>>]

eval_deriv(coords, orders, center, angmom_comps, alphas, prim_coeffs, norm) ==
    LET R_x == center[1]
        R_y == center[2]
        R_z == center[3]
        g(argnum) == apply_along_axis([n \in 1..Len(coords) |->
            grad(argnum, coords[n], R_x, R_y, R_z,
                 angmom_comps, alphas, prim_coeffs, norm)])
        grad_x == g(1)
        grad_y == g(2)
        grad_z == g(3)
    IN  IF IsError(grad_x) THEN grad_x
        ELSE IF IsError(grad_y) THEN grad_y
        ELSE IF IsError(grad_z) THEN grad_z
        ELSE Return(vstack_T(grad_x.val, grad_y.val, grad_z.val))

\* ------------------------------------------- the finite-difference estimate
\* np.apply_along_axis(eval_contractions, 1, coords, R_x + s*dx, R_y, R_z, ...)
\* for argnum = 1 (and likewise for R_y, R_z), to first order in dx: the pair
\* [v, d] computed with the scalar's derivative seeded by s stands for
\* v + s * d * dx.
perturbed(argnum, s, coords, R_x, R_y, R_z, angmom_comps, alphas, prim_coeffs, norm) ==
    LET step(i, r) == Dual(r, IF i = argnum THEN s ELSE 0)
    IN  apply_along_axis([n \in 1..Len(coords) |->
            eval_contractions(coords[n], step(1, R_x), step(2, R_y), step(3, R_z),
                              angmom_comps, alphas, prim_coeffs, norm)])

\* (plus - minus) / (2 * dx) of two N x (M*L) matrices, to first order in dx.
difference_quotient(plus, minus) ==
    [n \in 1..Len(plus) |->
        [i \in 1..Len(plus[n]) |-> PHalf(PSub(plus[n][i].d, minus[n][i].d))]]

\* One of grad_numerical_x, grad_numerical_y, grad_numerical_z.
central_difference(argnum, coords, R_x, R_y, R_z, angmom_comps, alphas, prim_coeffs, norm) ==
    LET plus == perturbed(argnum, 1, coords, R_x, R_y, R_z,
                          angmom_comps, alphas, prim_coeffs, norm)
        minus == perturbed(argnum, -1, coords, R_x, R_y, R_z,
                           angmom_comps, alphas, prim_coeffs, norm)
    IN  IF IsError(plus) THEN plus
        ELSE IF IsError(minus) THEN minus
        ELSE Return(difference_quotient(plus.val, minus.val))

\* np.hstack of three N-row matrices.
hstack(a, b, c) == [n \in 1..Len(a) |-> a[n] \o b[n] \o c[n]]

\* grad_numerical of the script.
finite_difference(coords, R_x, R_y, R_z, angmom_comps, alphas, prim_coeffs, norm) ==
    LET grad_numerical_x == central_difference(1, coords, R_x, R_y, R_z,
                                angmom_comps, alphas, prim_coeffs, norm)
        grad_numerical_y == central_difference(2, coords, R_x, R_y, R_z,
                                angmom_comps, alphas, prim_coeffs, norm)
        grad_numerical_z == central_difference(3, coords, R_x, R_y, R_z,
                                angmom_comps, alphas, prim_coeffs, norm)
    IN  IF IsError(grad_numerical_x) THEN grad_numerical_x
        ELSE IF IsError(grad_numerical_y) THEN grad_numerical_y
        ELSE IF IsError(grad_numerical_z) THEN grad_numerical_z
        ELSE Return(hstack(grad_numerical_x.val, grad_numerical_y.val,
                           grad_numerical_z.val))

\* np.allclose(gradient, grad_numerical): equality to first order in dx of two
\* matrices of one shape; shapes that do not broadcast raise ValueError.
allclose(a, b) ==
    IF Len(a) # Len(b) \/ \E n \in 1..Len(a) : Len(a[n]) # Len(b[n])
    THEN Raise("ValueError")
    ELSE Return(\A n \in 1..Len(a) : \A i \in 1..Len(a[n]) : a[n][i] = b[n][i])

\* Mutant of caller_coords: the shift done in place (coords -= center) through
\* the view that reshape returns, which writes into the caller's array.
caller_coords_shifted(coords, R_x, R_y, R_z) ==
    <<coords[1] - R_x, coords[2] - R_y, coords[3] - R_z>>

\* What the caller's coords row holds when eval_contractions returns: lines
\* 67-81 rebind the local name (reshape, indexing and subtraction build new
\* arrays or views) and assign nothing in place.
caller_coords(coords, R_x, R_y, R_z) == coords

\* ------------------------------------------------------------- np.random
\* The i-th draw of the generator's stream started from seed.
RECURSIVE Draw(_, _)
Draw(seed, i) ==
    IF i = 0 THEN (7919 * seed + 1) % 65537
    ELSE (75 * Draw(seed, i - 1) + 74) % 65537

\* The i-th draw as a grid value in lo..hi.
Rand(seed, i, lo, hi) == lo + (Draw(seed, i) % (hi - lo + 1))

\* An R x C matrix filled from the stream after position base.
RandMatrix(seed, base, R, C, lo, hi) ==
    [r \in 1..R |-> [c \in 1..C |-> Rand(seed, base + C * (r - 1) + c, lo, hi)]]

RandVector(seed, base, K, lo, hi) ==
    [k \in 1..K |-> Rand(seed, base + k, lo, hi)]

\* ------------------------------------------------------------------ state
VARIABLES
    coords,          \* N points
    center,          \* the three center scalars
    angmom_comps,    \* L triples of exponents
    alphas,          \* primitive exponents
    prim_coeffs,     \* K x M contraction coefficients
    norm,            \* L x K normalization constants
    output,          \* per point: the outcome of the last eval_contractions call
    gradient,        \* the outcome of eval_deriv
    grad_numerical,  \* the outcome of the finite-difference estimate
    close,           \* the outcome of np.allclose
    repeated,        \* a call was made again with arguments used before
    pc               \* the script's position

inputs == <<coords, center, angmom_comps, alphas, prim_coeffs, norm>>

vars == <<coords, center, angmom_comps, alphas, prim_coeffs, norm,
          output, gradient, grad_numerical, close, repeated, pc>>

\* No call has been made yet.
Unset == [err |-> "unset", val |-> <<>>]

IsSet(r) == r.err # "unset"

Computed(r) == r.err = ""

NoResults ==
    /\ output = [n \in 1..Len(coords) |-> Unset]
    /\ gradient = Unset
    /\ grad_numerical = Unset
    /\ close = Unset
    /\ repeated = FALSE

\* Inputs of the shapes the docstring asks for: coords (N, 3), angmom_comps
\* (L, 3), alphas (K,), prim_coeffs (K, M), norm (L, K).
ValidInputs(seed, N, K, L, M) ==
    /\ coords = RandMatrix(seed, 0, N, 3, 0, MaxCoord)
    /\ center = RandVector(seed, 3 * N, 3, 0, MaxCoord)
    /\ angmom_comps = RandMatrix(seed, 3 * N + 3, L, 3, 0, MaxAngmom)
    /\ alphas = RandVector(seed, 3 * N + 3 + 3 * L, K, 1, MaxAlpha)
    /\ prim_coeffs = RandMatrix(seed, 3 * N + 3 + 3 * L + K, K, M, -MaxCoeff, MaxCoeff)
    /\ norm = RandMatrix(seed, 3 * N + 3 + 3 * L + K + K * M, L, K, 1, MaxNorm)

\* The two worked scenarios: one primitive of exponent 1, one contraction of
\* coefficient 1, norm 1, center at the origin, the points (0,0,0) and
\* (1,0,0), and the angular momentum vector (0,0,0) or (1,0,0).
ScenarioInputs(a_x) ==
    /\ coords = <<<<0, 0, 0>>, <<1, 0, 0>>>>
    /\ center = <<0, 0, 0>>
    /\ angmom_comps = <<<<a_x, 0, 0>>>>
    /\ alphas = <<1>>
    /\ prim_coeffs = <<<<1>>>>
    /\ norm = <<<<1>>>>

Init ==
    /\ \/ \E seed \in 0..MaxSeed, K \in 1..MaxK, L \in 1..MaxL, M \in 1..MaxM :
              ValidInputs(seed, NPoints, K, L, M)
       \/ \E a_x \in 0..1 : ScenarioInputs(a_x)
    /\ NoResults
    /\ pc = "line115"

\* The script's inputs (lines 106-113).
DriverInit ==
    /\ \E seed \in 0..MaxDriverSeed :
        /\ coords = RandMatrix(seed, 0, DriverPoints, 3, 0, MaxCoord)
        /\ center = RandVector(seed, 3 * DriverPoints, 3, 0, MaxCoord)
        /\ angmom_comps = RandMatrix(seed, 3 * DriverPoints + 3, DriverAngmoms, 3,
                                     0, DriverAngmomEnd - 1)
        /\ alphas = RandVector(seed, 3 * DriverPoints + 6, DriverAlphas, 1, MaxAlpha)
        /\ prim_coeffs = RandMatrix(seed, 3 * DriverPoints + 6 + DriverAlphas,
                                    DriverPrims, DriverContractions, 0, MaxCoeff)
        /\ norm = [l \in 1..DriverAngmoms |-> [k \in 1..DriverPrims |-> 1]]
    /\ NoResults
    /\ pc = "line115"

\* ------------------------------------------------------------- operations
\* The single-point call eval_contractions(coords[n], R_x, R_y, R_z, ...).
CallEvalContractions(n) ==
    Values(eval_contractions(coords[n], Plain(center[1]), Plain(center[2]),
                             Plain(center[3]),
                             angmom_comps, alphas, prim_coeffs, norm))

\* The caller's coords after its rows went through eval_contractions.
CoordsAfterCalls ==
    [n \in 1..Len(coords) |->
        caller_coords(coords[n], center[1], center[2], center[3])]

\* A caller evaluates point n.
Evaluate(n) ==
    /\ output' = [output EXCEPT ![n] = CallEvalContractions(n)]
    /\ coords' = [coords EXCEPT
                    ![n] = caller_coords(coords[n], center[1], center[2], center[3])]
    /\ repeated' = (repeated \/ IsSet(output[n]))
    /\ UNCHANGED <<center, angmom_comps, alphas, prim_coeffs, norm,
                   gradient, grad_numerical, close>>

\* output = np.apply_along_axis(eval_contractions, 1, coords, ...)
EvaluateAll ==
    /\ output' = [n \in 1..Len(coords) |-> CallEvalContractions(n)]
    /\ coords' = CoordsAfterCalls
    /\ UNCHANGED <<center, angmom_comps, alphas, prim_coeffs, norm,
                   gradient, grad_numerical, close, repeated>>

\* gradient = eval_deriv(coords, 1, center, angmom_comps, alphas, prim_coeffs, norm)
Differentiate ==
    /\ gradient' = eval_deriv(coords, 1, center, angmom_comps, alphas, prim_coeffs, norm)
    /\ coords' = CoordsAfterCalls
    /\ repeated' = (repeated \/ IsSet(gradient))
    /\ UNCHANGED <<center, angmom_comps, alphas, prim_coeffs, norm,
                   output, grad_numerical, close>>

\* grad_numerical = np.hstack([grad_numerical_x, grad_numerical_y, grad_numerical_z])
Estimate ==
    /\ grad_numerical' = finite_difference(coords, center[1], center[2], center[3],
                                           angmom_comps, alphas, prim_coeffs, norm)
    /\ coords' = CoordsAfterCalls
    /\ UNCHANGED <<center, angmom_comps, alphas, prim_coeffs, norm,
                   output, gradient, close, repeated>>

\* np.allclose(gradient, grad_numerical)
Compare ==
    /\ Computed(gradient)
    /\ Computed(grad_numerical)
    /\ close' = allclose(gradient.val, grad_numerical.val)
    /\ UNCHANGED <<coords, center, angmom_comps, alphas, prim_coeffs, norm,
                   output, gradient, grad_numerical, repeated>>

\* ------------------------------------------------ the module-level script
\* An exception ends the script where it is raised.
After(r, next) == IF IsError(r) THEN "raised" ELSE next

Line115 ==
    /\ pc = "line115"
    /\ EvaluateAll
    /\ pc' = After(apply_along_axis(output'), "line118")

Line118 ==
    /\ pc = "line118"
    /\ Differentiate
    /\ pc' = After(gradient', "line121")

Line121 ==
    /\ pc = "line121"
    /\ Estimate
    /\ pc' = After(grad_numerical', "line130")

Line130 ==
    /\ pc = "line130"
    /\ Compare
    /\ pc' = After(close', "done")

DriverNext ==
    \/ Line115
    \/ Line118
    \/ Line121
    \/ Line130

\* The script as written, on its own inputs.
DriverSpec == DriverInit /\ [][DriverNext]_vars

\* ------------------------------------------------------------ other callers
\* A caller evaluates a point again, with the arguments used before.
EvaluateAgain ==
    /\ \E n \in 1..Len(coords) : IsSet(output[n]) /\ Evaluate(n)
    /\ UNCHANGED pc

\* A caller asks for the gradient again, with the arguments used before.
DifferentiateAgain ==
    /\ IsSet(gradient)
    /\ Differentiate
    /\ UNCHANGED pc

Next ==
    \/ Line115
    \/ Line118
    \/ Line121
    \/ Line130
    \/ EvaluateAgain
    \/ DifferentiateAgain

\* The script's steps and repeated calls, on valid inputs of every shape.
Spec == Init /\ [][Next]_vars

\* ==================================================================== claims
K == Len(alphas)
L == Len(angmom_comps)
M == Len(prim_coeffs[1])
N == Len(coords)

\* The closed form of one primitive's term of contraction m, angular momentum
\* vector l, at a point: coeffs[k,m] * norm[l,k] * prod_d delta_d^a[l,d] *
\* exp(-alpha_k * (delta_x^2 + delta_y^2 + delta_z^2)).
ClosedTerm(point, m, l, k) ==
    LET dx == point[1] - center[1]
        dy == point[2] - center[2]
        dz == point[3] - center[3]
        a == angmom_comps[l]
    IN  PMono(prim_coeffs[k][m] * norm[l][k]
                  * Pow(dx, a[1]) * Pow(dy, a[2]) * Pow(dz, a[3]),
              alphas[k] * (dx * dx + dy * dy + dz * dz))

RECURSIVE ClosedValue(_, _, _, _)
ClosedValue(point, m, l, k) ==
    IF k = 0 THEN PZero
    ELSE PAdd(ClosedValue(point, m, l, k - 1), ClosedTerm(point, m, l, k))

\* C1: for every evaluated point, the value for contraction m and angular
\* momentum vector l is the sum over the primitives k of coeffs[k,m] *
\* norm[l,k] * prod_d delta_d^a[l,d] * exp(-alpha_k * delta_d^2).
C1_ContractionFormula ==
    \A n \in 1..N : Computed(output[n]) =>
        \A m \in 1..M : \A l \in 1..L :
            output[n].val[(m - 1) * L + l] = ClosedValue(coords[n], m, l, K)

C1_Witness ==
    /\ K = 3 /\ L = 2 /\ M = 2
    /\ \E n \in 1..N :
        /\ Computed(output[n])
        /\ \E i \in 1..(M * L) : Cardinality(DOMAIN output[n].val[i]) >= 2

\* The M x L matrix np.tensordot returns for point n, as plain numbers.
TensorValues(n) ==
    LET T == tensordot(prim_coeffs,
                 normalized(shift(coords[n], Plain(center[1]), Plain(center[2]),
                                  Plain(center[3])),
                            angmom_comps, alphas, norm, K, L))
    IN  [m \in 1..M |-> [l \in 1..L |-> T[m][l].v]]

Matches(a, b) == Computed(a) /\ Computed(b) /\ allclose(a.val, b.val) = Return(TRUE)

\* C3: for K in 1..3, L in 1..2, M in 1..2 the analytic gradient of
\* eval_deriv matches the central finite-difference estimate on each of the
\* three center coordinates.
C3_GradientMatchesEstimate ==
    (K \in 1..3 /\ L \in 1..2 /\ M \in 1..2 /\ pc \notin {"line115", "line118"}) =>
        /\ Computed(gradient)
        /\ IsSet(grad_numerical) => Matches(gradient, grad_numerical)

\* C4: with more than one output component (M*L > 1) eval_deriv returns the
\* derivative per output component, one 3-vector per point and component,
\* rather than failing.
C4_GradientPerComponent ==
    (M * L > 1 /\ IsSet(gradient)) =>
        /\ Computed(gradient)
        /\ Len(gradient.val) = N
        /\ \A n \in 1..N : Len(gradient.val[n]) = 3 * M * L

\* The closed form of the partial derivative with respect to center scalar d
\* of one primitive's term: the product rule over the monomial and the
\* Gaussian of dimension d gives (2 * alpha * delta^(a+1) - a * delta^(a-1))
\* in place of delta^a.
ClosedPartialTerm(point, d, k) ==
    LET delta == [e \in 1..3 |-> point[e] - center[e]]
        a == angmom_comps[1]
        others == {e \in 1..3 : e # d}
        e1 == CHOOSE e \in others : TRUE
        e2 == CHOOSE e \in others : e # e1
        inner == 2 * alphas[k] * Pow(delta[d], a[d] + 1)
                 - (IF a[d] = 0 THEN 0 ELSE a[d] * Pow(delta[d], a[d] - 1))
    IN  PMono(prim_coeffs[k][1] * norm[1][k]
                  * Pow(delta[e1], a[e1]) * Pow(delta[e2], a[e2]) * inner,
              alphas[k] * (delta[1] * delta[1] + delta[2] * delta[2]
                           + delta[3] * delta[3]))

RECURSIVE ClosedPartial(_, _, _)
ClosedPartial(point, d, k) ==
    IF k = 0 THEN PZero
    ELSE PAdd(ClosedPartial(point, d, k - 1), ClosedPartialTerm(point, d, k))

IsScenario(a_x) ==
    /\ coords = <<<<0, 0, 0>>, <<1, 0, 0>>>>
    /\ center = <<0, 0, 0>>
    /\ angmom_comps = <<<<a_x, 0, 0>>>>
    /\ alphas = <<1>>
    /\ prim_coeffs = <<<<1>>>>
    /\ norm = <<<<1>>>>

\* C6: with one primitive of alpha 1, coefficient 1, norm 1, angular momentum
\* vector (1,0,0), center (0,0,0) and point (1,0,0), the value is e^-1 and the
\* gradient with respect to center_x is +e^-1.
C6_ScenarioP ==
    IsScenario(1) =>
        /\ Computed(output[2]) => output[2].val = <<PMono(1, 1)>>
        /\ IsSet(gradient) =>
            /\ Computed(gradient)
            /\ gradient.val[2][1] = PMono(1, 1)

C6_Witness == IsScenario(1) /\ Computed(output[2]) /\ Computed(gradient)

\* The arguments of eval_contractions with the primitives reordered by p:
\* alphas, the rows of prim_coeffs and the columns of norm alike.
PermutedOutput(n, p) ==
    Values(eval_contractions(coords[n], Plain(center[1]), Plain(center[2]),
               Plain(center[3]), angmom_comps,
               [k \in 1..K |-> alphas[p[k]]],
               [k \in 1..K |-> prim_coeffs[p[k]]],
               [l \in 1..L |-> [k \in 1..K |-> norm[l][p[k]]]]))

\* C7: the output of eval_contractions is unchanged by any permutation of
\* the primitives applied to alphas, the rows of prim_coeffs and the columns
\* of norm alike.
C7_PermutationInvariant ==
    \A n \in 1..N : IsSet(output[n]) =>
        \A p \in Permutations(1..K) : PermutedOutput(n, p) = output[n]

C7_Witness ==
    /\ K = 3
    /\ alphas[1] # alphas[2]
    /\ prim_coeffs[1] # prim_coeffs[3]
    /\ \E n \in 1..N : Computed(output[n]) /\ output[n].val[1] # PZero

\* C8: an angular momentum exponent of 0 gives the monomial factor 1 for
\* every shifted coordinate, 0 included; with angular momentum vector
\* (0,0,0), one primitive of alpha 1, coefficient 1, norm 1 and point =
\* center = (0,0,0), eval_contractions returns the single value 1.
C8_ZeroExponent ==
    /\ \A n \in 1..N : \A l \in 1..L : \A d \in 1..3 :
           (IsSet(output[n]) /\ angmom_comps[l][d] = 0) =>
               monomial(shift(coords[n], Plain(center[1]), Plain(center[2]),
                              Plain(center[3])),
                        angmom_comps, l, d).v = 1
    /\ (IsScenario(0) /\ IsSet(output[1])) => output[1] = Return(<<POne>>)

C8_Witness ==
    /\ IsScenario(0) /\ Computed(output[1])
    /\ coords[1] = center

\* C9: a call of eval_contractions or eval_deriv leaves every input array
\* unchanged, and a call made again with the same arguments returns what the
\* earlier call returned.
C9_Pure ==
    [][/\ inputs' = inputs
       /\ \A n \in 1..N : IsSet(output[n]) => output'[n] = output[n]
       /\ IsSet(gradient) => gradient' = gradient]_vars

C9_Witness ==
    /\ repeated
    /\ center # <<0, 0, 0>>
    /\ \A n \in 1..N : Computed(output[n])
    /\ Computed(gradient)

\* C10: in every call the script makes, the primitive count is the same for
\* alphas, the rows of prim_coeffs and the columns of norm, and the angular
\* momentum count is the same for angmom_comps and the rows of norm.
C10_ConsistentShapes ==
    (\E n \in 1..N : IsSet(output[n])) =>
        /\ Len(alphas) = Len(prim_coeffs)
        /\ Len(alphas) = Len(norm[1])
        /\ Len(angmom_comps) = Len(norm)

====
